---------------------------- MODULE Spec2Model ----------------------------
(***************************************************************************)
(* Model of the wordle_solver crate: the feedback engine                   *)
(* (Correctness::compute), the consistency filter (Guess::matches), the    *)
(* game loop (Wordle::play) and the guessers (Naive, and the scripted      *)
(* guessers of the crate's tests).                                         *)
(*                                                                         *)
(* A word is a sequence of WordLen letters; letters are numbers            *)
(* (a = 1, b = 2, c = 3, ...).                                             *)
(***************************************************************************)
EXTENDS Naturals, Sequences, FiniteSets

\* assert_eq!(answer.len(), 5)
WordLen == 5
\* for i in 1..=32
MaxRounds == 32
\* size of the alphabet the pure-function specifications draw words from
NumLetters == 2

Pos == 1..WordLen
Letters == 1..NumLetters
Words == [Pos -> Letters]

\* enum Correctness
Correctness == {"Correct", "Misplaced", "Wrong"}
Masks == [Pos -> Correctness]

VARIABLES
    answer,      \* play's `answer` / compute's `answer`
    dictionary,  \* Wordle.dictionary
    gkind,       \* which Guesser implementation plays: "naive" or "script"
    script,      \* the scripted guesser's parameters [k, w, v]
    remaining,   \* Naive.remaining (its key set)
    history,     \* play's `history`
    round,       \* play's loop variable i
    guess,       \* play's `guess` of the current round
    calls,       \* number of guesser.guess invocations so far
    returned,    \* the words the guesser returned, in order
    pc,          \* position in play: "call", "guessed", "returned", "panicked"
    result,      \* play's outcome
    pastWord,    \* Guess.word handed to matches
    pastMask,    \* Guess.mask handed to matches
    candidate,   \* the `word` argument of matches
    accepted,    \* what matches returned
    stage        \* position of the pure-function specifications

gameVars == <<dictionary, gkind, script, remaining, history, round, guess,
              calls, returned, pc, result>>
pureVars == <<pastWord, pastMask, candidate, accepted, stage>>
vars == <<answer, gameVars, pureVars>>

-----------------------------------------------------------------------------
(* Correctness::compute *)

\* the first loop: c[i] = Correct where answer and guess agree
GreenPass(a, g) == [i \in Pos |-> IF a[i] = g[i] THEN "Correct" ELSE "Wrong"]

GreensUsedNone(c) == [i \in Pos |-> FALSE]

\* used[i] = true for every Correct position
GreensUsed(c) == [i \in Pos |-> c[i] = "Correct"]

\* the closure of answer.chars().enumerate().any(..): the first answer
\* position holding x that is not used yet; 0 when there is none
FirstUnused(a, used, x) ==
    LET hits == {j \in Pos : a[j] = x /\ ~used[j]}
    IN  IF hits = {} THEN 0 ELSE CHOOSE j \in hits : \A h \in hits : j <= h

ConsumeForgot(used, j) == used

\* used[i] = true inside the closure
Consume(used, j) == [used EXCEPT ![j] = TRUE]

\* the third loop, from guess position i on
RECURSIVE YellowPass(_, _, _, _, _)
YellowPass(i, a, g, c, used) ==
    IF i > WordLen THEN c
    ELSE IF c[i] = "Correct" THEN YellowPass(i + 1, a, g, c, used)
    ELSE LET j == FirstUnused(a, used, g[i])
         IN  IF j = 0 THEN YellowPass(i + 1, a, g, c, used)
             ELSE YellowPass(i + 1, a, g, [c EXCEPT ![i] = "Misplaced"],
                             Consume(used, j))

compute(a, g) ==
    LET c == GreenPass(a, g)
    IN  YellowPass(1, a, g, c, GreensUsed(c))


-----------------------------------------------------------------------------
(* Guess::matches *)

\* the first loop ("first check greens") runs to its end: no Correct position
\* of the mask disagrees between the past guess and the word
GreensAgree(pw, pm, w) == \A i \in Pos : pm[i] = "Correct" => pw[i] = w[i]

\* used[i] = true for the Correct positions the first loop has passed
GreensMarked(pm) == [i \in Pos |-> pm[i] = "Correct"]

\* the closure handed to any(..), from past-guess position j on, for the
\* letter x of the word: any(..) stops at the first true and goes on after a
\* false, so it goes on after a Wrong has cleared `plausible`
RECURSIVE AnyScan(_, _, _, _, _, _)
AnyScan(j, pw, pm, x, used, plausible) ==
    IF j > WordLen
    THEN [found |-> FALSE, used |-> used, plausible |-> plausible, panic |-> FALSE]
    ELSE IF pw[j] # x \/ used[j]
    THEN AnyScan(j + 1, pw, pm, x, used, plausible)
    ELSE IF pm[j] = "Correct"
    THEN [found |-> FALSE, used |-> used, plausible |-> plausible, panic |-> TRUE]
    ELSE IF pm[j] = "Misplaced"
    THEN [found |-> TRUE, used |-> [used EXCEPT ![j] = TRUE],
          plausible |-> plausible, panic |-> FALSE]
    ELSE AnyScan(j + 1, pw, pm, x, used, FALSE)

\* the second loop, from word position i on: "true", "false", or
\* "unreachable" when the closure runs into its unreachable!() arm
RECURSIVE WordScan(_, _, _, _, _)
WordScan(i, pw, pm, w, used) ==
    IF i > WordLen THEN "true"
    ELSE LET r == AnyScan(1, pw, pm, w[i], used, TRUE)
         IN  IF r.panic THEN "unreachable"
             ELSE IF r.found /\ r.plausible THEN WordScan(i + 1, pw, pm, w, r.used)
             ELSE IF ~r.plausible THEN "false"
             ELSE WordScan(i + 1, pw, pm, w, r.used)

matchesOutcome(pw, pm, w) ==
    IF ~GreensAgree(pw, pm, w) THEN "false"
    ELSE WordScan(1, pw, pm, w, GreensMarked(pm))

matches(pw, pm, w) == matchesOutcome(pw, pm, w) = "true"

-----------------------------------------------------------------------------
(* The pure-function specifications *)

GameIdle ==
    /\ dictionary = {}
    /\ gkind = "none"
    /\ script = <<>>
    /\ remaining = {}
    /\ history = <<>>
    /\ round = 0
    /\ guess = <<>>
    /\ calls = 0
    /\ returned = <<>>
    /\ pc = "idle"
    /\ result = [kind |-> "Idle", round |-> 0]

\* an answer and a guess, before compute runs
InitCompute ==
    /\ answer \in Words
    /\ pastWord \in Words
    /\ pastMask = <<>>
    /\ candidate = <<>>
    /\ accepted = "none"
    /\ stage = "start"
    /\ GameIdle

\* mask = Correctness::compute(answer, guess)
Compute ==
    /\ stage = "start"
    /\ pastMask' = compute(answer, pastWord)
    /\ stage' = "computed"
    /\ UNCHANGED <<answer, gameVars, pastWord, candidate, accepted>>

\* Guess { word: guess, mask }.matches(answer)
MatchAnswer ==
    /\ stage = "computed"
    /\ candidate' = answer
    /\ accepted' = matchesOutcome(pastWord, pastMask, answer)
    /\ stage' = "matched"
    /\ UNCHANGED <<answer, gameVars, pastWord, pastMask>>

\* Guess { word: guess, mask }.matches(guess)
MatchGuess ==
    /\ stage = "computed"
    /\ candidate' = pastWord
    /\ accepted' = matchesOutcome(pastWord, pastMask, pastWord)
    /\ stage' = "matched"
    /\ UNCHANGED <<answer, gameVars, pastWord, pastMask>>

NextCompute == Compute \/ MatchAnswer \/ MatchGuess

SpecCompute == InitCompute /\ [][NextCompute]_vars

\* a past guess word and a candidate, before any mask is known
InitFilter ==
    /\ answer = <<>>
    /\ pastWord \in Words
    /\ candidate \in Words
    /\ pastMask = <<>>
    /\ accepted = "none"
    /\ stage = "start"
    /\ GameIdle

\* Guess { word, mask }.matches(candidate) for a mask of any five values
MatchAnyMask ==
    /\ stage = "start"
    /\ \E m \in Masks :
          /\ pastMask' = m
          /\ accepted' = matchesOutcome(pastWord, m, candidate)
    /\ stage' = "matched"
    /\ UNCHANGED <<answer, gameVars, pastWord, candidate>>

NextFilter == MatchAnyMask

SpecFilter == InitFilter /\ [][NextFilter]_vars

-----------------------------------------------------------------------------
(* Wordle::play with a Guesser *)

\* the words the games are played with: abbbb, aabbb, babbb, abcde
Lexicon == { <<1, 2, 2, 2, 2>>, <<1, 1, 2, 2, 2>>, <<2, 1, 2, 2, 2>>,
             <<1, 2, 3, 4, 5>> }

\* the contents of dictionary.txt: the whole lexicon, or the lexicon without
\* abbbb, or without abcde
Dictionaries == { Lexicon, Lexicon \ {<<1, 2, 2, 2, 2>>},
                  Lexicon \ {<<1, 2, 3, 4, 5>>} }

\* a scripted guesser returns v when the history has k entries, w otherwise
Scripts == [k : 0..MaxRounds, w : Lexicon, v : Lexicon]

Running == [kind |-> "Running", round |-> 0]
Some(i) == [kind |-> "Some", round |-> i]
None == [kind |-> "None", round |-> 0]
AssertFailed == [kind |-> "AssertFailed", round |-> 0]
UnwrapNone == [kind |-> "UnwrapNone", round |-> 0]

PureIdle ==
    /\ pastWord = <<>>
    /\ pastMask = <<>>
    /\ candidate = <<>>
    /\ accepted = "none"
    /\ stage = "idle"

\* Wordle::new(), a guesser, and play up to its first loop iteration
Init ==
    /\ answer \in Lexicon
    /\ dictionary \in Dictionaries
    /\ \/ gkind = "naive" /\ script = <<>> /\ remaining = dictionary
       \/ gkind = "script" /\ script \in Scripts /\ remaining = {}
    /\ history = <<>>
    /\ round = 1
    /\ guess = <<>>
    /\ calls = 0
    /\ returned = <<>>
    /\ pc = "call"
    /\ result = Running
    /\ PureIdle

RetainInverted(pool, last) == {w \in pool : ~matches(last.word, last.mask, w)}

\* self.remaining.retain(|word, _| last.matches(word))
Retain(pool, last) == {w \in pool : matches(last.word, last.mask, w)}

\* Naive::guess: the pool is filtered against the last history entry; `best`
\* is the first entry the HashMap iterates (goodness > c.goodness never
\* holds), and the iteration order of a HashMap is unspecified
NaiveGuess ==
    /\ pc = "call"
    /\ gkind = "naive"
    /\ LET pool == IF history # <<>>
                   THEN Retain(remaining, history[Len(history)])
                   ELSE remaining
       IN  /\ remaining' = pool
           /\ calls' = calls + 1
           /\ IF pool = {}
              THEN /\ pc' = "panicked"
                   /\ result' = UnwrapNone
                   /\ UNCHANGED <<guess, returned>>
              ELSE /\ \E w \in pool :
                         /\ guess' = w
                         /\ returned' = Append(returned, w)
                   /\ pc' = "guessed"
                   /\ UNCHANGED result
    /\ UNCHANGED <<answer, dictionary, gkind, script, history, round, pureVars>>

\* the guessers of tests::game: if history.len() == k { return v } w
ScriptGuess ==
    /\ pc = "call"
    /\ gkind = "script"
    /\ guess' = IF Len(history) = script.k THEN script.v ELSE script.w
    /\ returned' = Append(returned, guess')
    /\ calls' = calls + 1
    /\ pc' = "guessed"
    /\ UNCHANGED <<answer, dictionary, gkind, script, remaining, history, round,
                   result, pureVars>>

\* if guess == answer { return Some(i); }
PlayWin ==
    /\ pc = "guessed"
    /\ guess = answer
    /\ pc' = "returned"
    /\ result' = Some(round)
    /\ UNCHANGED <<answer, dictionary, gkind, script, remaining, history, round,
                   guess, calls, returned, pureVars>>

InDictionaryUnchecked(w) == TRUE

\* self.dictionary.contains(&*guess)
InDictionary(w) == w \in dictionary

\* assert!(self.dictionary.contains(&*guess)) fails
PlayAssertFails ==
    /\ pc = "guessed"
    /\ guess # answer
    /\ ~InDictionary(guess)
    /\ pc' = "panicked"
    /\ result' = AssertFailed
    /\ UNCHANGED <<answer, dictionary, gkind, script, remaining, history, round,
                   guess, calls, returned, pureVars>>

PushFront(h, w, m) == <<[word |-> w, mask |-> m]>> \o h

\* history.push(Guess { word: guess, mask: correctness })
Push(h, w, m) == Append(h, [word |-> w, mask |-> m])

LastRoundEarly(i) == i = MaxRounds - 1

\* the range 1..=32 is exhausted after round i
LastRound(i) == i = MaxRounds

\* the rest of the loop body for a wrong dictionary word, and the None after
\* the loop when this was the last round
PlayPush ==
    /\ pc = "guessed"
    /\ guess # answer
    /\ InDictionary(guess)
    /\ history' = Push(history, guess, compute(answer, guess))
    /\ IF LastRound(round)
       THEN /\ pc' = "returned"
            /\ result' = None
            /\ UNCHANGED round
       ELSE /\ pc' = "call"
            /\ round' = round + 1
            /\ UNCHANGED result
    /\ UNCHANGED <<answer, dictionary, gkind, script, remaining, guess, calls,
                   returned, pureVars>>

Next == NaiveGuess \/ ScriptGuess \/ PlayWin \/ PlayAssertFails \/ PlayPush

Spec == Init /\ [][Next]_vars

\* play is sequential code: a step that can be taken is taken
FairSpec == Spec /\ WF_vars(Next)

-----------------------------------------------------------------------------
(* Properties of compute and matches *)

\* number of occurrences of the letter x in the word w
Occ(x, w) == Cardinality({i \in Pos : w[i] = x})

\* positions of the guess g holding x that the mask m marks Correct or Misplaced
Marked(x, g, m) == {i \in Pos : g[i] = x /\ m[i] \in {"Correct", "Misplaced"}}

\* the unreachable!() arm of the closure in matches is never taken
UnreachableArmNeverTaken == accepted # "unreachable"

\* C1: matches(candidate) on Guess{word, mask} is true exactly when
\* compute(candidate, word) equals mask, for every word, mask and candidate
C1_FilterEngineEquivalence ==
    stage = "matched" =>
        ((accepted = "true") <=> (compute(candidate, pastWord) = pastMask))

\* C2: the answer matches the guess paired with the mask compute gave for it
C2_SelfConsistency ==
    (stage = "matched" /\ candidate = answer) => accepted = "true"

\* C4: for every letter, the Correct and Misplaced marks on it in the guess
\* never outnumber its occurrences in the answer
C4_DuplicateConservation ==
    stage \in {"computed", "matched"} =>
        \A x \in Letters :
            Cardinality(Marked(x, pastWord, pastMask)) <= Occ(x, answer)

\* a letter the guess holds more often than the answer does, marked as often
\* as the answer holds it and no more
C4_Witness ==
    /\ stage = "computed"
    /\ \E x \in Letters :
          /\ Occ(x, answer) > 0
          /\ Occ(x, pastWord) > Occ(x, answer)
          /\ Cardinality(Marked(x, pastWord, pastMask)) = Occ(x, answer)

\* the Misplaced marks the letter x is due: its occurrences in the answer
\* less the positions where guess and answer both hold it
Due(x, a, g) ==
    LET both == Cardinality({i \in Pos : g[i] = x /\ a[i] = x})
    IN  IF Occ(x, a) > both THEN Occ(x, a) - both ELSE 0

\* C7: a position is Correct exactly where guess and answer agree, and for
\* each letter the leftmost Due non-Correct positions holding it are
\* Misplaced and the others Wrong
C7_GreensFirstLeftToRight ==
    stage \in {"computed", "matched"} =>
        /\ \A i \in Pos : (pastMask[i] = "Correct") <=> (pastWord[i] = answer[i])
        /\ pastWord = answer => pastMask = [i \in Pos |-> "Correct"]
        /\ \A x \in Letters :
              LET rest == {i \in Pos : pastWord[i] = x /\ answer[i] # x}
              IN  \A i \in rest :
                      pastMask[i] =
                          IF Cardinality({h \in rest : h < i}) < Due(x, answer, pastWord)
                          THEN "Misplaced" ELSE "Wrong"

\* one letter Correct at one position, Misplaced at a second, Wrong at a third
C7_Witness ==
    /\ stage = "computed"
    /\ \E i, j, h \in Pos :
          /\ pastWord[i] = pastWord[j] /\ pastWord[j] = pastWord[h]
          /\ pastMask[i] = "Correct"
          /\ pastMask[j] = "Misplaced"
          /\ pastMask[h] = "Wrong"
          /\ j < h

\* C10: a guess that is not the answer does not match itself under the mask
\* compute gave for it
C10_WrongGuessEliminatesItself ==
    (stage = "matched" /\ candidate = pastWord /\ pastWord # answer)
        => accepted # "true"

-----------------------------------------------------------------------------
(* Properties of the game *)

Terminal == pc \in {"returned", "panicked"}

\* round r is the first whose guess is the answer
FirstHit(r) ==
    /\ r \in 1..Len(returned)
    /\ returned[r] = answer
    /\ \A j \in 1..(r - 1) : returned[j] # answer

OutcomeOK ==
    /\ calls <= MaxRounds
    /\ pc = "call" => calls = round - 1
    /\ pc = "guessed" => calls = round
    /\ result.kind = "Some" => pc = "returned" /\ FirstHit(result.round)
    /\ (pc = "returned" /\ \E r \in 1..Len(returned) : returned[r] = answer)
          => result.kind = "Some"
    /\ (result = None) <=>
          /\ pc = "returned"
          /\ Len(returned) = MaxRounds
          /\ \A j \in 1..Len(returned) : returned[j] # answer
    /\ result.kind = "Some" => calls = result.round
    /\ result = None => calls = MaxRounds
    /\ pc = "returned" => result.kind \in {"Some", "None"}
    /\ pc = "panicked" =>
          \/ result = UnwrapNone
          \/ result = AssertFailed /\ guess # answer /\ guess \notin dictionary

\* C3: play returns Some(r) exactly when round r is the first whose guess is
\* the answer and None exactly when none of the 32 guesses is; the guesser is
\* called once per round, never after the winning round, at most 32 times;
\* and the game ends, by a return unless the guesser broke its contract
C3_GameOutcome == []OutcomeOK /\ <>Terminal

\* a game lost after 32 wrong dictionary words
C3_Witness == result = None /\ Len(history) = MaxRounds /\ calls = MaxRounds

\* C5 as stated: a game in which the guesser returned a word outside the
\* dictionary never returns, and no such word enters the history
C5_NonDictionaryAlwaysFatal ==
    /\ pc = "returned" => \A j \in 1..Len(returned) : returned[j] \in dictionary
    /\ \A j \in 1..Len(history) : history[j].word \in dictionary

C5_Safe ==
    /\ \A j \in 1..Len(returned) :
          returned[j] \notin (dictionary \cup {answer}) =>
              j = Len(returned) /\ pc \in {"guessed", "panicked"}
    /\ pc = "returned" =>
          \A j \in 1..Len(returned) : returned[j] \in (dictionary \cup {answer})
    /\ \A j \in 1..Len(history) : history[j].word \in dictionary

C5_Aborts ==
    (pc = "guessed" /\ guess # answer /\ guess \notin dictionary) =>
        (pc' = "panicked" /\ result' = AssertFailed /\ history' = history)

\* C5, amended: a guess that is neither the answer nor a dictionary word
\* aborts the game in its round; a game in which such a word was returned
\* never returns Some or None; no word outside the dictionary enters the
\* history
C5_NonDictionaryFatalUnlessAnswer == []C5_Safe /\ [][C5_Aborts]_vars

\* the assertion has failed on a word outside the dictionary
C5_Witness ==
    /\ result = AssertFailed
    /\ guess \notin dictionary
    /\ Len(history) > 0

\* C6: a Naive::guess call leaves the pool a subset of what it was, and each
\* word it drops fails matches against the last history entry
C6_MonotonicNarrowing ==
    [][/\ remaining' \subseteq remaining
       /\ remaining' # remaining =>
             /\ history # <<>>
             /\ \A w \in remaining \ remaining' :
                   ~matches(history[Len(history)].word,
                            history[Len(history)].mask, w)]_vars

\* Naive has dropped some words and kept others
C6_Witness ==
    /\ gkind = "naive"
    /\ remaining # {}
    /\ remaining # dictionary
    /\ pc = "guessed"

C8_Faithful ==
    /\ pc = "call" => Len(history) = calls
    /\ pc = "guessed" => Len(history) = calls - 1
    /\ Len(history) <= Len(returned)
    /\ \A j \in 1..Len(history) :
          /\ history[j].word = returned[j]
          /\ history[j].mask = compute(answer, returned[j])
          /\ history[j].word # answer

C8_AppendOnly ==
    \/ history' = history
    \/ /\ Len(history') = Len(history) + 1
       /\ SubSeq(history', 1, Len(history)) = history

\* C8: the k-th guesser call sees k-1 entries, entry j is the j-th returned
\* word with compute(answer, word), entries are only ever appended, and no
\* entry holds the answer
C8_HistoryAppendOnlyFaithful == []C8_Faithful /\ [][C8_AppendOnly]_vars

\* a history of two different words, the guesser called a third time
C8_Witness ==
    /\ pc = "guessed"
    /\ calls = 3
    /\ Len(history) = 2
    /\ history[1].word # history[2].word

\* C9: with Naive and an answer from the dictionary, best.unwrap() never
\* meets an empty pool
C9_NaivePoolNeverEmpty ==
    (gkind = "naive" /\ answer \in dictionary) => result # UnwrapNone

=============================================================================
